---- MODULE Spec2Model ----
(***************************************************************************)
(* Event resolution of bovada-bet-linker (src/src/matcher.js, lines 1-260): *)
(* the lexical scorer findMatchingEventSimple, the resolution policy       *)
(* findMatchingEventWithDebug and the escalation resolver                  *)
(* findMatchingEventLLM.  Lines 262-448 of the file repeat an earlier      *)
(* version of the same functions, which is not modelled.                   *)
(*                                                                         *)
(* Text is a sequence of one-character strings.  A field that is           *)
(* undefined, null or '' is the empty sequence: the code tests such fields *)
(* only for truthiness, which does not tell the three apart.  An event is  *)
(* referred to by its position in the input list (1..Len(events)), the     *)
(* model's form of the object reference the code returns; NullEvent is     *)
(* null.  A score is an IEEE-754 double: [t |-> exact sum in tenths,       *)
(* d |-> distance in representable doubles from the double nearest t/10].  *)
(*                                                                         *)
(* Spec is one call of findMatchingEventWithDebug.  ScorerSpec is one call *)
(* of findMatchingEventSimple on its own, RepeatSpec the same input        *)
(* resolved again, NormSpec one call of normalizePlayerName.               *)
(***************************************************************************)
EXTENDS Integers, Sequences, FiniteSets, TLC

VARIABLES
    pick,            \* parsedPick: [players, sport, league]
    events,          \* the event list given to the call
    apiKey,          \* the API key string ("" when there is none)
    pc,              \* "start" | "awaitLLM" | "done"
    rawScores,       \* the score each event reached in the scorer's loop
    simpleResult,    \* what findMatchingEventSimple returned (matcher.js:28)
    candidates,      \* matcher.js:29
    llmCalls,        \* number of calls of findMatchingEventLLM
    eventSummaries,  \* what the resolver was sent (matcher.js:187)
    response,        \* the resolver's answer
    llmMatch,        \* how findMatchingEventLLM ended (matcher.js:45)
    result,          \* how findMatchingEventWithDebug ended
    normalizedPlayers,  \* the players of the pick, normalized (matcher.js:103)
    eventParticipants,  \* the normalized participants of each event (matcher.js:106)
    bonuses,         \* what each player added to each event's score, in tenths
    run,             \* which resolution of the same input this is
    firstResult,     \* how the first resolution of the input ended
    rawName,         \* the argument of a call of normalizePlayerName
    normalized,      \* normalizePlayerName(rawName)
    renormalized,    \* normalizePlayerName(normalizePlayerName(rawName))
    plainNormalized, \* normalizePlayerName of rawName written without accents
    slugInput,       \* the argument of a call of slugify
    slug,            \* slugify(slugInput)
    reslug,          \* slugify(slugify(slugInput))
    urlEvent,        \* the argument of a call of buildBovadaUrl
    zone,            \* the time zone of the process
    url,             \* buildBovadaUrl(urlEvent)
    eventCache,      \* bovada.js:13, cache key -> entry
    now,             \* Date.now(), in minutes
    oddsApiKey,      \* process.env.ODDS_API_KEY ("" when not set)
    calls,           \* the calls of fetchBovadaEvents
    picksChannelId,  \* config.picksChannelId ("" when not set)
    messages         \* the Discord messages and how far their handling has come

\* the locals of a scorer call that the policy does not see, the repetition
\* of a resolution, and a call of normalizePlayerName on its own
scorerVars == <<normalizedPlayers, eventParticipants, bonuses>>
repeatVars == <<run, firstResult>>
normVars == <<rawName, normalized, renormalized, plainNormalized>>

\* a call of slugify and a call of buildBovadaUrl on their own
urlVars == <<slugInput, slug, reslug, urlEvent, zone, url>>

\* the event cache of bovada.js and the calls of fetchBovadaEvents
cacheVars == <<eventCache, now, oddsApiKey, calls>>

\* the configuration of the bot and the messages it receives
botVars == <<picksChannelId, messages>>

\* what lies outside the matcher
serviceVars == <<urlVars, cacheVars, botVars>>

\* everything of the matcher but the position of the call
matcherVars == <<pick, events, apiKey, rawScores, simpleResult, candidates, llmCalls,
                 eventSummaries, response, llmMatch, result,
                 normalizedPlayers, eventParticipants, bonuses, run, firstResult,
                 rawName, normalized, renormalized, plainNormalized>>

vars == <<pick, events, apiKey, pc, rawScores, simpleResult, candidates, llmCalls,
          eventSummaries, response, llmMatch, result, scorerVars, repeatVars, normVars,
          serviceVars>>

----------------------------------------------------------------------------
(* Bounds of the model *)

MaxPlayers == 2      \* longest pick.players
MaxEvents == 2       \* longest event list built from arbitrary events
MaxOver == 1         \* how far a long event list exceeds the resolver's slice
MaxNameLen == 3      \* longest argument of a call of normalizePlayerName on its own
MaxRuns == 2         \* how often one input is resolved
MaxPath == 2         \* longest _path of an event given to buildBovadaUrl
MaxCalls == 2        \* calls of fetchBovadaEvents, which may be under way together
MaxClock == 6        \* minutes the clock runs
MaxMessages == 2     \* Discord messages, which may be handled together

----------------------------------------------------------------------------
(* Characters and JavaScript string operations *)

UpperToLower ==
    ("A" :> "a") @@ ("B" :> "b") @@ ("C" :> "c") @@ ("E" :> "e") @@ ("J" :> "j") @@
    ("L" :> "l") @@ ("O" :> "o") @@ ("R" :> "r") @@ ("T" :> "t") @@
    ("X" :> "x") @@ ("E_acute" :> "e_acute")

\* U+0301, the combining acute accent; "e_acute" is U+00E9, "E_acute" U+00C9
CombiningAcute == "U+0301"

Decomposition == ("e_acute" :> <<"e", CombiningAcute>>)

\* the classes a-z, 0-9 and \s of the regular expressions
LowerLetters ==
    {"a", "b", "c", "d", "e", "f", "g", "h", "i", "j", "k", "l", "m",
     "n", "o", "p", "q", "r", "s", "t", "u", "v", "w", "x", "y", "z"}
Digits == {"0", "1", "2", "3", "4", "5", "6", "7", "8", "9"}
Whitespace == {" ", "\t"}

\* String.prototype.toLowerCase
ToLowerCase(s) ==
    [i \in 1..Len(s) |-> IF s[i] \in DOMAIN UpperToLower THEN UpperToLower[s[i]] ELSE s[i]]

RECURSIVE Nfd(_)
\* String.prototype.normalize('NFD')
Nfd(s) ==
    IF s = <<>> THEN <<>>
    ELSE (IF Head(s) \in DOMAIN Decomposition THEN Decomposition[Head(s)] ELSE <<Head(s)>>)
         \o Nfd(Tail(s))

\* .replace(/[\u0300-\u036f]/g, '')
StripAccents(s) == SelectSeq(s, LAMBDA c : c # CombiningAcute)

\* .replace(/[^a-z0-9\s]/g, '')
StripSpecial(s) == SelectSeq(s, LAMBDA c : c \in LowerLetters \cup Digits \cup Whitespace)

RECURSIVE CollapseWhitespace(_)
\* .replace(/\s+/g, ' ')
CollapseWhitespace(s) ==
    IF s = <<>> THEN <<>>
    ELSE IF Head(s) \in Whitespace
         THEN IF Len(s) > 1 /\ s[2] \in Whitespace
              THEN CollapseWhitespace(Tail(s))
              ELSE <<" ">> \o CollapseWhitespace(Tail(s))
         ELSE <<Head(s)>> \o CollapseWhitespace(Tail(s))

RECURSIVE TrimStart(_)
TrimStart(s) ==
    IF s # <<>> /\ Head(s) \in Whitespace THEN TrimStart(Tail(s)) ELSE s

RECURSIVE TrimEnd(_)
TrimEnd(s) ==
    IF s # <<>> /\ s[Len(s)] \in Whitespace THEN TrimEnd(SubSeq(s, 1, Len(s) - 1)) ELSE s

\* String.prototype.trim
Trim(s) == TrimEnd(TrimStart(s))

\* normalizePlayerName trimming first, before the characters are removed
normalizePlayerNameTrimFirst(name) ==
    CollapseWhitespace(StripSpecial(StripAccents(Nfd(Trim(ToLowerCase(name))))))

\* normalizePlayerName
normalizePlayerName(name) ==
    Trim(CollapseWhitespace(StripSpecial(StripAccents(Nfd(ToLowerCase(name))))))

\* a name as it is written without accents: the base letter for an accented
\* letter, and no combining accent
Unaccented(s) ==
    LET Plain(c) == IF c = "e_acute" THEN "e" ELSE IF c = "E_acute" THEN "E" ELSE c
        kept == SelectSeq(s, LAMBDA c : c # CombiningAcute)
    IN  [i \in 1..Len(kept) |-> Plain(kept[i])]

\* String.prototype.includes
Includes(hay, needle) ==
    \E i \in 0..(Len(hay) - Len(needle)) : SubSeq(hay, i + 1, i + Len(needle)) = needle

RECURSIVE SplitFrom(_, _)
\* the pieces of s, cur being the piece read so far
SplitFrom(s, cur) ==
    IF s = <<>> THEN <<cur>>
    ELSE IF Head(s) = " " THEN <<cur>> \o SplitFrom(Tail(s), <<>>)
    ELSE SplitFrom(Tail(s), Append(cur, Head(s)))

\* String.prototype.split(' ')
Split(s) == SplitFrom(s, <<>>)

\* String.prototype.startsWith
StartsWith(s, prefix) ==
    Len(prefix) <= Len(s) /\ SubSeq(s, 1, Len(prefix)) = prefix

RECURSIVE Join(_, _)
\* Array.prototype.join
Join(parts, sep) ==
    IF parts = <<>> THEN <<>>
    ELSE IF Len(parts) = 1 THEN parts[1]
    ELSE parts[1] \o sep \o Join(Tail(parts), sep)

----------------------------------------------------------------------------
(* urlBuilder.js *)

BOVADA_BASE_URL == <<"h", "t", "t", "p", "s", ":", "/", "/", "w", "w", "w", ".", "b", "o", "v", "a", "d", "a", ".", "l", "v">>

\* .replace(/[^a-z0-9\s-]/g, '')
StripSlugSpecial(s) ==
    SelectSeq(s, LAMBDA c : c \in LowerLetters \cup Digits \cup Whitespace \cup {"-"})

RECURSIVE HyphenateWhitespace(_)
\* .replace(/\s+/g, '-')
HyphenateWhitespace(s) ==
    IF s = <<>> THEN <<>>
    ELSE IF Head(s) \in Whitespace
         THEN IF Len(s) > 1 /\ s[2] \in Whitespace
              THEN HyphenateWhitespace(Tail(s))
              ELSE <<"-">> \o HyphenateWhitespace(Tail(s))
         ELSE <<Head(s)>> \o HyphenateWhitespace(Tail(s))

RECURSIVE CollapseHyphens(_)
\* .replace(/-+/g, '-')
CollapseHyphens(s) ==
    IF s = <<>> THEN <<>>
    ELSE IF Head(s) = "-" /\ Len(s) > 1 /\ s[2] = "-"
         THEN CollapseHyphens(Tail(s))
         ELSE <<Head(s)>> \o CollapseHyphens(Tail(s))

\* .replace(/^-|-$/g, ''): one hyphen at the start and one at the end
StripEdgeHyphens(s) ==
    LET t == IF s # <<>> /\ Head(s) = "-" THEN Tail(s) ELSE s
    IN  IF t # <<>> /\ t[Len(t)] = "-" THEN SubSeq(t, 1, Len(t) - 1) ELSE t

\* slugify without the step that collapses hyphens
slugifyNoCollapse(str) ==
    IF str = <<>> THEN <<>>
    ELSE StripEdgeHyphens(HyphenateWhitespace(
             StripSlugSpecial(StripAccents(Nfd(ToLowerCase(str))))))

\* slugify; the missing and the empty string are both falsy and both are <<>>
slugify(str) ==
    IF str = <<>> THEN <<>>
    ELSE StripEdgeHyphens(CollapseHyphens(HyphenateWhitespace(
             StripSlugSpecial(StripAccents(Nfd(ToLowerCase(str)))))))

\* the values of event.startTime: none, a date, and text that is no date
NoTime == "none"
ValidTime == "2026-02-08T11:00:00Z"
InvalidTime == "soon"
StartTimes == {NoTime, ValidTime, InvalidTime}

\* the time zones of the process: getFullYear .. getMinutes are local time
Zones == {"UTC", "UTC-6"}

\* formatTimestamp(new Date(startTime)); every field of an invalid date is
\* NaN, which padStart leaves as it is
formatTimestamp(startTime, tz) ==
    IF startTime = InvalidTime THEN <<"N", "a", "N", "N", "a", "N", "N", "a", "N", "N", "a", "N", "N", "a", "N">>
    ELSE IF tz = "UTC" THEN <<"2", "0", "2", "6", "0", "2", "0", "8", "1", "1", "0", "0">>
    ELSE <<"2", "0", "2", "6", "0", "2", "0", "8", "0", "5", "0", "0">>

\* [a, b].filter(Boolean)
FilterBoolean(list) == SelectSeq(list, LAMBDA x : x # <<>>)

\* createEventSlug
createEventSlug(event, tz) ==
    LET given == FilterBoolean(<<event.participant1, event.participant2>>)
        participantsSlug == Join([i \in 1..Len(given) |-> slugify(given[i])], <<"-">>)
        timestamp == IF event.startTime # NoTime
                     THEN formatTimestamp(event.startTime, tz) ELSE <<>>
    IN  IF timestamp # <<>> THEN participantsSlug \o <<"-">> \o timestamp
        ELSE participantsSlug

\* constructUrl
constructUrl(event, tz) ==
    LET sport == slugify(IF event.sport # <<>> THEN event.sport ELSE <<"s", "p", "o", "r", "t", "s">>)
        league == slugify(IF event.league # <<>> THEN event.league ELSE <<"e", "v", "e", "n", "t", "s">>)
    IN  BOVADA_BASE_URL \o <<"/", "s", "p", "o", "r", "t", "s", "/">> \o sport \o <<"/">> \o league
            \o <<"/">> \o createEventSlug(event, tz)

\* constructUrlFromPath
constructUrlFromPath(path, rawEvent, tz) ==
    LET pathParts == [i \in 1..Len(path) |->
                         IF path[i].link # <<>> THEN path[i].link
                         ELSE slugify(path[i].description)]
        eventSlug == IF rawEvent.link # <<>> THEN rawEvent.link
                     ELSE createEventSlug(rawEvent, tz)
    IN  BOVADA_BASE_URL \o <<"/", "s", "p", "o", "r", "t", "s", "/">> \o Join(pathParts, <<"/">>)
            \o <<"/">> \o eventSlug

\* buildBovadaUrl looking at _raw and _path before it looks at link
buildBovadaUrlPathFirst(event, tz) ==
    IF event.raw.present /\ event.path.present
    THEN constructUrlFromPath(event.path.items, event.raw, tz)
    ELSE IF event.link # <<>>
    THEN IF StartsWith(event.link, <<"h", "t", "t", "p">>) THEN event.link
         ELSE BOVADA_BASE_URL \o event.link
    ELSE constructUrl(event, tz)

\* buildBovadaUrl
buildBovadaUrl(event, tz) ==
    IF event.link # <<>>
    THEN IF StartsWith(event.link, <<"h", "t", "t", "p">>) THEN event.link
         ELSE BOVADA_BASE_URL \o event.link
    ELSE IF event.raw.present /\ event.path.present
    THEN constructUrlFromPath(event.path.items, event.raw, tz)
    ELSE constructUrl(event, tz)

----------------------------------------------------------------------------
(* Scores: IEEE-754 doubles built by `score += 0.x` *)

SportBonus == 2          \* 0.2
LeagueBonus == 1         \* 0.1
ExactBonus == 7          \* 0.7
ContainedBonus == 6      \* 0.6
ContainsBonus == 5       \* 0.5
PartBonus == 4           \* 0.4
MinNameLength == 3       \* length >= 3
MinPartLength == 2       \* part.length > 2

\* the double written as the decimal literal t/10
Dec(t) == [t |-> t, d |-> 0]

\* Additions <<s.t, s.d, b>> whose double result lies one double above the
\* double nearest (s.t + b)/10, for every sum the scorer can form with up to
\* four players (0.2 + 0.1 = 0.30000000000000004, ...)
RoundsUp ==
    {<<2, 0, 1>>, <<2, 0, 4>>, <<3, 1, 4>>, <<6, 1, 6>>, <<7, 1, 5>>, <<8, 0, 4>>,
     <<11, 0, 6>>, <<12, 1, 5>>, <<12, 1, 6>>, <<12, 1, 7>>, <<13, 0, 4>>,
     <<17, 1, 6>>, <<17, 1, 7>>, <<18, 1, 5>>, <<18, 1, 6>>, <<19, 1, 4>>,
     <<19, 1, 5>>, <<22, 0, 6>>, <<22, 0, 7>>}

\* ... and one double below it (0.1 + 0.7 = 0.7999999999999999, ...)
RoundsDown ==
    {<<1, 0, 7>>, <<2, 0, 7>>, <<6, 0, 7>>, <<7, 0, 6>>, <<8, -1, 5>>, <<9, -1, 4>>,
     <<9, -1, 7>>, <<12, 0, 6>>, <<13, -1, 4>>, <<13, -1, 5>>, <<13, -1, 7>>,
     <<14, 0, 4>>, <<14, 0, 7>>, <<16, -1, 5>>, <<16, -1, 6>>, <<17, -1, 4>>,
     <<17, -1, 5>>, <<17, -1, 7>>, <<18, -1, 4>>, <<19, 0, 7>>, <<20, -1, 6>>,
     <<20, -1, 7>>, <<21, -1, 4>>, <<21, -1, 5>>, <<21, -1, 6>>, <<22, -1, 4>>,
     <<22, -1, 5>>, <<22, -1, 7>>, <<23, 0, 4>>, <<24, 0, 7>>}

\* score += b/10, in double arithmetic
FAdd(s, b) ==
    [t |-> s.t + b,
     d |-> IF <<s.t, s.d, b>> \in RoundsUp THEN 1
           ELSE IF <<s.t, s.d, b>> \in RoundsDown THEN -1 ELSE 0]

\* a > b and a >= b on doubles
FGt(a, b) == a.t > b.t \/ (a.t = b.t /\ a.d > b.d)
FGe(a, b) == FGt(a, b) \/ a = b

----------------------------------------------------------------------------
(* The lexical scorer *)

NullEvent == 0       \* null in place of an event

\* [p1, p2, description, displayName].filter(Boolean).map(normalizePlayerName)
Participants(event) ==
    LET raw == <<event.participant1, event.participant2, event.description,
                 event.displayName>>
        kept == SelectSeq(raw, LAMBDA p : p # <<>>)
    IN  [i \in 1..Len(kept) |-> normalizePlayerName(kept[i])]

\* the partial (last name) rule: some part of the player, longer than two
\* characters, equals or lies within some part of the participant
PartMatch(normalizedPlayer, participant) ==
    LET playerParts == Split(normalizedPlayer)
        participantParts == Split(participant)
    IN  \E i \in 1..Len(playerParts) :
            /\ Len(playerParts[i]) > MinPartLength
            /\ \E j \in 1..Len(participantParts) :
                   \/ participantParts[j] = playerParts[i]
                   \/ Includes(participantParts[j], playerParts[i])

\* what one participant adds for one player: the first rule that fires, 0 if none
RuleBonus(normalizedPlayer, participant) ==
    IF participant = normalizedPlayer THEN ExactBonus
    ELSE IF Includes(participant, normalizedPlayer) /\ Len(normalizedPlayer) >= MinNameLength
         THEN ContainedBonus
    ELSE IF Includes(normalizedPlayer, participant) /\ Len(participant) >= MinNameLength
         THEN ContainsBonus
    ELSE IF PartMatch(normalizedPlayer, participant) THEN PartBonus
    ELSE 0

RECURSIVE PlayerBonusBest(_, _, _)
\* PlayerBonusFrom taking the best rule any participant fires, not the first
PlayerBonusBest(normalizedPlayer, participants, i) ==
    IF i > Len(participants) THEN 0
    ELSE LET b == RuleBonus(normalizedPlayer, participants[i])
             rest == PlayerBonusBest(normalizedPlayer, participants, i + 1)
         IN  IF b > rest THEN b ELSE rest

RECURSIVE PlayerBonusFrom(_, _, _)
\* the loop over participants from position i: it stops at the first match
PlayerBonusFrom(normalizedPlayer, participants, i) ==
    IF i > Len(participants) THEN 0
    ELSE LET b == RuleBonus(normalizedPlayer, participants[i])
         IN  IF b > 0 THEN b ELSE PlayerBonusFrom(normalizedPlayer, participants, i + 1)

PlayerBonus(playerName, event) ==
    PlayerBonusFrom(normalizePlayerName(playerName), Participants(event), 1)

SportMatches(sport, event) ==
    /\ sport # <<>>
    /\ event.sport # <<>>
    /\ ToLowerCase(event.sport) = ToLowerCase(sport)

LeagueMatches(league, event) ==
    /\ league # <<>>
    /\ event.league # <<>>
    /\ Includes(ToLowerCase(event.league), ToLowerCase(league))

RECURSIVE AddPlayersFirstOnly(_, _, _, _)
\* AddPlayers leaving the loop over the players at the first one that matches
AddPlayersFirstOnly(score, players, i, event) ==
    IF i > Len(players) THEN score
    ELSE LET b == PlayerBonus(players[i], event)
         IN  IF b > 0 THEN FAdd(score, b)
             ELSE AddPlayersFirstOnly(score, players, i + 1, event)

RECURSIVE AddPlayers(_, _, _, _)
\* the loop over pick.players from position i, score being the sum so far
AddPlayers(score, players, i, event) ==
    IF i > Len(players) THEN score
    ELSE LET b == PlayerBonus(players[i], event)
         IN  AddPlayers(IF b > 0 THEN FAdd(score, b) ELSE score, players, i + 1, event)

\* EventScore adding 0.5 for the sport
EventScoreSportHalf(parsedPick, event) ==
    LET s0 == Dec(0)
        s1 == IF SportMatches(parsedPick.sport, event) THEN FAdd(s0, ContainsBonus) ELSE s0
        s2 == IF LeagueMatches(parsedPick.league, event) THEN FAdd(s1, LeagueBonus) ELSE s1
    IN  AddPlayers(s2, parsedPick.players, 1, event)

\* the score of one event: the body of the loop over events
EventScore(parsedPick, event) ==
    LET s0 == Dec(0)
        s1 == IF SportMatches(parsedPick.sport, event) THEN FAdd(s0, SportBonus) ELSE s0
        s2 == IF LeagueMatches(parsedPick.league, event) THEN FAdd(s1, LeagueBonus) ELSE s1
    IN  AddPlayers(s2, parsedPick.players, 1, event)

RECURSIVE BestFromLast(_, _, _, _)
\* BestFrom with >= for >: a later event with an equal score replaces the best
BestFromLast(scores, i, bestMatch, bestScore) ==
    IF i > Len(scores) THEN [event |-> bestMatch, score |-> bestScore]
    ELSE IF FGe(scores[i], bestScore)
         THEN BestFromLast(scores, i + 1, i, scores[i])
         ELSE BestFromLast(scores, i + 1, bestMatch, bestScore)

RECURSIVE BestFrom(_, _, _, _)
\* bestMatch and bestScore after the events from position i: a later event
\* replaces the best only with a strictly greater score
BestFrom(scores, i, bestMatch, bestScore) ==
    IF i > Len(scores) THEN [event |-> bestMatch, score |-> bestScore]
    ELSE IF FGt(scores[i], bestScore)
         THEN BestFrom(scores, i + 1, i, scores[i])
         ELSE BestFrom(scores, i + 1, bestMatch, bestScore)

RECURSIVE PushedFromHalf(_, _)
\* PushedFrom keeping only the events that score 0.5 or more
PushedFromHalf(scores, i) ==
    IF i > Len(scores) THEN <<>>
    ELSE (IF FGe(scores[i], Dec(5)) THEN <<[event |-> i, score |-> scores[i]]>> ELSE <<>>)
         \o PushedFromHalf(scores, i + 1)

RECURSIVE PushedFrom(_, _)
\* allCandidates before sorting: the events with score > 0, in input order
PushedFrom(scores, i) ==
    IF i > Len(scores) THEN <<>>
    ELSE (IF FGt(scores[i], Dec(0)) THEN <<[event |-> i, score |-> scores[i]]>> ELSE <<>>)
         \o PushedFrom(scores, i + 1)

RECURSIVE InsertCandidate(_, _)
\* c placed behind every candidate of the sorted list whose score is not smaller
InsertCandidate(sorted, c) ==
    IF sorted = <<>> THEN <<c>>
    ELSE IF FGt(c.score, Head(sorted).score) THEN <<c>> \o sorted
    ELSE <<Head(sorted)>> \o InsertCandidate(Tail(sorted), c)

\* SortCandidates leaving the list as the loop built it
SortCandidatesNone(cs) == cs

RECURSIVE SortCandidates(_)
\* allCandidates.sort((a, b) => b.score - a.score): Array.prototype.sort is stable
SortCandidates(cs) ==
    IF cs = <<>> THEN <<>>
    ELSE InsertCandidate(SortCandidates(SubSeq(cs, 1, Len(cs) - 1)), cs[Len(cs)])

\* ClampConfidence without the clamp
ClampConfidenceNone(bestScore) == bestScore

\* Math.min(bestScore, 1.0)
ClampConfidence(bestScore) == IF FGt(bestScore, Dec(10)) THEN Dec(10) ELSE bestScore

\* findMatchingEventSimple returning null
NullResult == [isNull |-> TRUE, event |-> NullEvent, confidence |-> Dec(0), allCandidates |-> <<>>]

\* the return value, from bestMatch/bestScore and the sorted candidates
SimpleResult(best, allCandidates) ==
    IF best.event # NullEvent
    THEN [isNull |-> FALSE, event |-> best.event,
          confidence |-> ClampConfidence(best.score),
          allCandidates |-> allCandidates]
    ELSE [isNull |-> FALSE, event |-> NullEvent, confidence |-> Dec(0),
          allCandidates |-> allCandidates]

\* the loop's outcome for the scores of the events
Ranked(scores) ==
    SimpleResult(BestFrom(scores, 1, NullEvent, Dec(0)), SortCandidates(PushedFrom(scores, 1)))

\* the scores the loop over events computes, in input order; none when the
\* function returns before the loop
Scores(parsedPick, evs) ==
    IF parsedPick.players = <<>> THEN <<>>
    ELSE [i \in 1..Len(evs) |-> EventScore(parsedPick, evs[i])]

\* normalizedPlayer for each player of the pick
NormalizedPlayers(parsedPick) ==
    [j \in 1..Len(parsedPick.players) |-> normalizePlayerName(parsedPick.players[j])]

\* participants for each event; none when the function returns before the loop
AllParticipants(parsedPick, evs) ==
    IF parsedPick.players = <<>> THEN <<>>
    ELSE [i \in 1..Len(evs) |-> Participants(evs[i])]

\* what each player of the pick adds to the score of each event (0 when no
\* rule fires), in tenths: element [i][j] for event i and player j, given
\* the normalized players and the participants of the events
Bonuses(players, pools) ==
    [i \in 1..Len(pools) |->
        [j \in 1..Len(players) |-> PlayerBonusFrom(players[j], pools[i], 1)]]

\* SimpleFrom without the test of players
SimpleFromUnguarded(parsedPick, eventScores) == Ranked(eventScores)

\* findMatchingEventSimple, given the scores of its loop
SimpleFrom(parsedPick, eventScores) ==
    IF parsedPick.players = <<>> THEN NullResult ELSE Ranked(eventScores)

findMatchingEventSimple(parsedPick, evs) == SimpleFrom(parsedPick, Scores(parsedPick, evs))

----------------------------------------------------------------------------
(* The escalation resolver *)

SliceLimit == 50         \* events.slice(0, 50)
UndefinedEvent == -1     \* undefined: events[i] for an i that is no index of the list

\* What the request to the resolver produced:
\*   "rejected"    the request failed or timed out (the awaited promise rejects)
\*   "nocontent"   response.content is empty, so content.type throws
\*   "nontext"     content of another type than text
\*   "unparsable"  text that JSON.parse rejects
\*   "jsonnull"    text that parses to null, so result.matchIndex throws
\*   "json"        a parsed value with its matchIndex (null, missing, an integer,
\*                 or a number that is no integer) and its confidence
\* The integers tried are those around the two ends of the list and of the
\* slice the resolver was sent.
MatchIndexes(n) ==
    {[type |-> "null", value |-> 0], [type |-> "missing", value |-> 0],
     [type |-> "fraction", value |-> 0]}
    \cup {[type |-> "int", value |-> v] :
             v \in {w \in -1..(n + 1) : w <= MaxEvents + 1 \/ w >= SliceLimit - 1}}

NoMatchIndex == [type |-> "missing", value |-> 0]

ThrowingKinds == {"rejected", "nocontent", "unparsable", "jsonnull"}

Responses(n) ==
    {[kind |-> k, matchIndex |-> NoMatchIndex, confidence |-> 0] :
        k \in ThrowingKinds \cup {"nontext"}}
    \cup [kind : {"json"}, matchIndex : MatchIndexes(n), confidence : {0, 10}]

NoResponse == [kind |-> "none", matchIndex |-> NoMatchIndex, confidence |-> 0]

\* events.slice(0, 50).map((event, index) => ({index, ...})); startTime, which
\* nothing in the matcher reads, is left out of events and summaries
EventSummaries(evs) ==
    [i \in 1..(IF Len(evs) < SliceLimit THEN Len(evs) ELSE SliceLimit) |->
        [index |-> i - 1,
         sport |-> evs[i].sport,
         league |-> evs[i].league,
         description |-> IF evs[i].description # <<>> THEN evs[i].description
                         ELSE evs[i].displayName,
         participant1 |-> evs[i].participant1,
         participant2 |-> evs[i].participant2]]

\* result.matchIndex !== null && result.matchIndex >= 0 && result.matchIndex < events.length
IndexAccepted(m, evs) ==
    CASE m.type = "null" -> FALSE
      [] m.type = "missing" -> FALSE
      [] m.type = "fraction" -> TRUE      \* a number strictly between 0 and 1
      [] m.type = "int" -> m.value >= 0 /\ m.value < Len(evs)

\* how a call ends: by throwing, or by returning value
Thrown == [threw |-> TRUE, value |-> NullEvent]
Value(v) == [threw |-> FALSE, value |-> v]

\* the try block of findMatchingEventLLM
TryBlock(evs, resp) ==
    IF resp.kind \in ThrowingKinds THEN Thrown
    ELSE IF resp.kind = "nontext" THEN Value(NullEvent)
    ELSE IF IndexAccepted(resp.matchIndex, evs)
         THEN IF resp.matchIndex.type = "int" THEN Value(resp.matchIndex.value + 1)
              ELSE Value(UndefinedEvent)
         ELSE Value(NullEvent)

\* findMatchingEventLLM without its catch clause
findMatchingEventLLMNoCatch(evs, resp) == TryBlock(evs, resp)

\* findMatchingEventLLM: the try block, and the catch clause returning null
findMatchingEventLLM(evs, resp) ==
    IF TryBlock(evs, resp).threw THEN Value(NullEvent) ELSE TryBlock(evs, resp)

----------------------------------------------------------------------------
(* The resolution policy *)

NoKeyThreshold == 5      \* simpleResult.confidence >= 0.5
AcceptThreshold == 7     \* simpleResult.confidence >= 0.7
FallbackThreshold == 3   \* simpleResult.confidence >= 0.3
LLMConfidence == 9       \* confidence: 0.9

\* Truthy taking every key for one
TruthyAlways(key) == TRUE

\* a string is truthy unless it is empty
Truthy(key) == key # ""

\* an event object is truthy; null and undefined are not
IsEvent(v) == v # NullEvent /\ v # UndefinedEvent

\* the outcome of findMatchingEventWithDebug: not yet settled, a returned
\* {event, confidence, candidates}, or a rejection
NoResult ==
    [status |-> "pending", event |-> NullEvent, confidence |-> Dec(0), candidates |-> <<>>]
Returned(event, confidence, cands) ==
    [status |-> "returned", event |-> event, confidence |-> confidence, candidates |-> cands]
Rejected ==
    [status |-> "threw", event |-> NullEvent, confidence |-> Dec(0), candidates |-> <<>>]

\* NoEvents without the test
NoEventsUnchecked(evs) == FALSE

\* !events || events.length === 0
NoEvents(evs) == Len(evs) = 0

\* simpleResult?.allCandidates || []
CandidatesOf(sr) == IF sr.isNull THEN <<>> ELSE sr.allCandidates

\* AcceptsLexical with > 0.7 for >= 0.7
AcceptsLexicalStrict(sr, key) ==
    /\ ~sr.isNull
    /\ FGe(sr.confidence, Dec(NoKeyThreshold))
    /\ (FGt(sr.confidence, Dec(AcceptThreshold)) \/ ~Truthy(key))

\* the first test: the lexical result is used directly
AcceptsLexical(sr, key) ==
    /\ ~sr.isNull
    /\ FGe(sr.confidence, Dec(NoKeyThreshold))
    /\ (FGe(sr.confidence, Dec(AcceptThreshold)) \/ ~Truthy(key))

\* Fallback returning no candidates when nothing matched
FallbackNoCandidates(sr, cands) ==
    IF ~sr.isNull /\ FGe(sr.confidence, Dec(FallbackThreshold))
    THEN Returned(sr.event, sr.confidence, cands)
    ELSE Returned(NullEvent, Dec(0), <<>>)

\* the last two returns of findMatchingEventWithDebug
Fallback(sr, cands) ==
    IF ~sr.isNull /\ FGe(sr.confidence, Dec(FallbackThreshold))
    THEN Returned(sr.event, sr.confidence, cands)
    ELSE Returned(NullEvent, Dec(0), cands)

\* AfterResolver passing the lexical confidence on instead of 0.9
AfterResolverLexicalConfidence(c, sr, cands) ==
    IF c.threw THEN Rejected
    ELSE IF IsEvent(c.value) THEN Returned(c.value, sr.confidence, cands)
    ELSE Fallback(sr, cands)

\* findMatchingEventWithDebug from the resolver's completion c to its end
AfterResolver(c, sr, cands) ==
    IF c.threw THEN Rejected
    ELSE IF IsEvent(c.value) THEN Returned(c.value, Dec(LLMConfidence), cands)
    ELSE Fallback(sr, cands)

\* EventsAfter with the ranking done on the event list itself
EventsSortedInPlace(evs, ranked) == [k \in 1..Len(ranked) |-> evs[ranked[k].event]]

\* EventsAfter with the events that scored nothing taken out of the list
EventsFilteredInPlace(evs, ranked) ==
    LET kept == {ranked[k].event : k \in 1..Len(ranked)}
        keep[i \in 0..Len(evs)] ==
            IF i = 0 THEN <<>>
            ELSE IF i \in kept THEN Append(keep[i - 1], evs[i]) ELSE keep[i - 1]
    IN  keep[Len(evs)]

\* the caller's event list after a call, ranked being the candidates the
\* scorer built: the loops only read events, push and sort work on
\* allCandidates, and slice copies
EventsAfter(evs, ranked) == evs

\* findMatchingEventWithDebug up to its return, or to the await of the resolver
Resolve ==
    /\ pc = "start"
    /\ IF NoEvents(events)
       THEN /\ result' = Returned(NullEvent, Dec(0), <<>>)
            /\ pc' = "done"
            /\ UNCHANGED <<events, rawScores, simpleResult, candidates, llmCalls,
                           eventSummaries>>
       ELSE /\ rawScores' = Scores(pick, events)
            /\ simpleResult' = SimpleFrom(pick, rawScores')
            /\ candidates' = CandidatesOf(simpleResult')
            /\ events' = EventsAfter(events, candidates')
            /\ IF AcceptsLexical(simpleResult', apiKey)
               THEN /\ result' = Returned(simpleResult'.event, simpleResult'.confidence,
                                          candidates')
                    /\ pc' = "done"
                    /\ UNCHANGED <<llmCalls, eventSummaries>>
               ELSE IF Truthy(apiKey)
               THEN /\ llmCalls' = llmCalls + 1
                    /\ eventSummaries' = EventSummaries(events)
                    /\ pc' = "awaitLLM"
                    /\ UNCHANGED result
               ELSE /\ result' = Fallback(simpleResult', candidates')
                    /\ pc' = "done"
                    /\ UNCHANGED <<llmCalls, eventSummaries>>
    /\ UNCHANGED <<pick, apiKey, response, llmMatch, scorerVars, repeatVars, normVars,
                   serviceVars>>

\* the resolver's request settles, findMatchingEventLLM ends and
\* findMatchingEventWithDebug runs to its end
ResolverReturns ==
    /\ pc = "awaitLLM"
    /\ \E resp \in Responses(Len(events)) :
           /\ response' = resp
           /\ llmMatch' = findMatchingEventLLM(events, resp)
           /\ result' = AfterResolver(llmMatch', simpleResult, candidates)
    /\ pc' = "done"
    /\ UNCHANGED <<pick, events, apiKey, rawScores, simpleResult, candidates, llmCalls,
                   eventSummaries, scorerVars, repeatVars, normVars, serviceVars>>

\* the resolver is deterministic: asked again about the same input, it
\* answers as it did before
SameAnswer == run > 1 => response' = response

\* the resolver's request settles in a repeated resolution
ResolverRepeats == ResolverReturns /\ SameAnswer

\* a second resolution of the same pick against the same event list begins
Rerun ==
    /\ pc = "done"
    /\ run < MaxRuns
    /\ result.status = "returned"
    /\ firstResult' = IF run = 1 THEN result ELSE firstResult
    /\ run' = run + 1
    /\ pc' = "start"
    /\ rawScores' = <<>>
    /\ simpleResult' = NullResult
    /\ candidates' = <<>>
    /\ eventSummaries' = <<>>
    /\ llmMatch' = Value(NullEvent)
    /\ result' = NoResult
    /\ UNCHANGED <<pick, events, apiKey, llmCalls, response, scorerVars, normVars,
                   serviceVars>>

\* a call of findMatchingEventSimple on its own (src/cli.js:112)
Score ==
    /\ pc = "start"
    /\ normalizedPlayers' = NormalizedPlayers(pick)
    /\ eventParticipants' = AllParticipants(pick, events)
    /\ bonuses' = Bonuses(normalizedPlayers', eventParticipants')
    /\ rawScores' = Scores(pick, events)
    /\ simpleResult' = SimpleFrom(pick, rawScores')
    /\ events' = EventsAfter(events, simpleResult'.allCandidates)
    /\ pc' = "scored"
    /\ UNCHANGED <<pick, apiKey, candidates, llmCalls, eventSummaries, response,
                   llmMatch, result, repeatVars, normVars, serviceVars>>

\* a call of normalizePlayerName, on a name and on the same name written
\* without accents, and a second call on what the first returned
Normalize ==
    /\ pc = "start"
    /\ normalized' = normalizePlayerName(rawName)
    /\ renormalized' = normalizePlayerName(normalized')
    /\ plainNormalized' = normalizePlayerName(Unaccented(rawName))
    /\ pc' = "normalized"
    /\ UNCHANGED <<pick, events, apiKey, rawScores, simpleResult, candidates, llmCalls,
                   eventSummaries, response, llmMatch, result, scorerVars, repeatVars,
                   rawName, serviceVars>>

\* a call of slugify, and a second call on what the first returned
Slugify ==
    /\ pc = "start"
    /\ slug' = slugify(slugInput)
    /\ reslug' = slugify(slug')
    /\ pc' = "slugged"
    /\ UNCHANGED <<matcherVars, slugInput, urlEvent, zone, url, cacheVars, botVars>>

\* a call of buildBovadaUrl
BuildUrl ==
    /\ pc = "start"
    /\ url' = buildBovadaUrl(urlEvent, zone)
    /\ pc' = "built"
    /\ UNCHANGED <<matcherVars, slugInput, slug, reslug, urlEvent, zone, cacheVars,
                   botVars>>

----------------------------------------------------------------------------
(* Inputs *)

Lee == <<"L", "e", "e">>
AlLeeAccent == <<"A", "l", " ", "L", "e_acute", "e">>
JoLee == <<"J", "o", " ", "L", "e", "e">>
AlLee == <<"A", "l", " ", "L", "e", "e">>
BoRay == <<"B", "o", " ", "R", "a", "y">>
CyOrr == <<"C", "y", " ", "O", "r", "r">>
CyLee == <<"C", "y", " ", "L", "e", "e">>
LeeRay == <<"L", "e", "e", "/", "R", "a", "y">>
Tennis == <<"T", "e", "n", "n", "i", "s">>
tennis == <<"t", "e", "n", "n", "i", "s">>
nba == <<"n", "b", "a">>
atp == <<"a", "t", "p">>
Atp1 == <<"A", "t", "p", " ", "1">>

PlayerNames == {Lee, AlLeeAccent, JoLee}

Singles ==
    [sport |-> tennis, league |-> Atp1, participant1 |-> AlLee, participant2 |-> BoRay,
     description |-> <<>>, displayName |-> <<>>]
Doubles ==
    [sport |-> tennis, league |-> <<>>, participant1 |-> <<>>, participant2 |-> <<>>,
     description |-> LeeRay, displayName |-> <<>>]
Basket ==
    [sport |-> nba, league |-> <<>>, participant1 |-> Lee, participant2 |-> BoRay,
     description |-> <<>>, displayName |-> <<>>]
Other ==
    [sport |-> tennis, league |-> Atp1, participant1 |-> BoRay, participant2 |-> CyOrr,
     description |-> <<>>, displayName |-> <<>>]

\* two participants with the same last name
Siblings ==
    [sport |-> tennis, league |-> <<>>, participant1 |-> CyLee, participant2 |-> JoLee,
     description |-> <<>>, displayName |-> <<>>]

EventSet == {Singles, Doubles, Basket, Other, Siblings}

PlayerLists == UNION {[1..n -> PlayerNames] : n \in 0..MaxPlayers}
Picks == [players : PlayerLists, sport : {<<>>, Tennis}, league : {<<>>, atp}]

\* every event list of up to MaxEvents events
ShortLists == UNION {[1..n -> EventSet] : n \in 0..MaxEvents}

\* event lists as long as the resolver's slice and longer, the events of
\* EventSet in rotation, under picks of one player
EventCycle == <<Other, Singles, Doubles, Basket>>
LongLists ==
    {[i \in 1..n |-> EventCycle[((i - 1) % Len(EventCycle)) + 1]] :
        n \in SliceLimit..(SliceLimit + MaxOver)}
LongPicks == {p \in Picks : Len(p.players) = 1}

ApiKeys == {"", "sk-ant-key"}

\* an event with no field set
NoRaw ==
    [present |-> FALSE, link |-> <<>>, participant1 |-> <<>>, participant2 |-> <<>>,
     startTime |-> NoTime]
NoPath == [present |-> FALSE, items |-> <<>>]
NoUrlEvent ==
    [link |-> <<>>, raw |-> NoRaw, path |-> NoPath, sport |-> <<>>, league |-> <<>>,
     participant1 |-> <<>>, participant2 |-> <<>>, startTime |-> NoTime]

\* no call of slugify or buildBovadaUrl has been made
UrlIdle ==
    /\ slugInput = <<>>
    /\ slug = <<>>
    /\ reslug = <<>>
    /\ urlEvent = NoUrlEvent
    /\ zone = "UTC"
    /\ url = <<>>

(* bovada.js: the event cache and the data sources *)

CACHE_TTL_MS == 5        \* 5 * 60 * 1000 ms, in minutes

all == <<"a", "l", "l">>

\* const cacheKey = sport || 'all'
CacheKey(sport) == IF sport # <<>> THEN sport ELSE all

\* the sports fetchBovadaEvents is called for, and their cache keys
Sports == {<<>>, tennis, nba}
CacheKeys == {CacheKey(sport) : sport \in Sports}

\* the keys of sportKeyMap and of sportPaths, as far as the inputs reach
KnownSports == {tennis}

\* an entry of the cache; Map.get gives undefined for a key without one
NoEntry == [present |-> FALSE, events |-> <<>>, timestamp |-> 0]
Entry(evs, time) == [present |-> TRUE, events |-> evs, timestamp |-> time]

\* the test of bovada.js:25 with <= for <
IsFreshInclusive(cached, time) ==
    cached.present /\ time - cached.timestamp <= CACHE_TTL_MS

\* cached && Date.now() - cached.timestamp < CACHE_TTL_MS
IsFresh(cached, time) ==
    cached.present /\ time - cached.timestamp < CACHE_TTL_MS

\* how a request to a data source goes
NoRequest == [kind |-> "noRequest", events |-> <<>>]
OddsOutcomes ==
    {[kind |-> "threw", events |-> <<>>], [kind |-> "httpError", events |-> <<>>],
     [kind |-> "ok", events |-> <<>>], [kind |-> "ok", events |-> <<"odds-1">>]}
BovadaOutcomes ==
    {[kind |-> "threw", events |-> <<>>], [kind |-> "httpError", events |-> <<>>],
     [kind |-> "ok", events |-> <<>>], [kind |-> "ok", events |-> <<"bovada-1">>]}

\* fetchFromOddsAPI sends a request for a sport of sportKeyMap only
OddsRequested(sport) == sport # <<>> /\ ToLowerCase(sport) \in KnownSports

\* fetchFromBovadaDirect sends requests for no sport (all sports) and for a
\* sport of sportPaths
BovadaRequested(sport) == sport = <<>> \/ ToLowerCase(sport) \in KnownSports

\* a source whose catch clause is missing
SourceReturnsNoCatch(outcome) ==
    IF outcome.kind = "threw" THEN [raised |-> TRUE, events |-> <<>>]
    ELSE IF outcome.kind = "ok" THEN [raised |-> FALSE, events |-> outcome.events]
    ELSE [raised |-> FALSE, events |-> <<>>]

\* what a source returns: [] when it sent no request, when the response is
\* not ok and when anything threw (bovada.js:88-91, 109-112, 163-176)
SourceReturns(outcome) ==
    IF outcome.kind = "ok" THEN [raised |-> FALSE, events |-> outcome.events]
    ELSE [raised |-> FALSE, events |-> <<>>]

MockTennis == <<"mock-tennis-1", "mock-tennis-2", "mock-tennis-3", "mock-tennis-4">>
MockBasketball == <<"mock-nba-1">>

\* getMockEvents
getMockEvents(sport) ==
    IF sport # <<>> /\ ToLowerCase(sport) = tennis THEN MockTennis
    ELSE MockTennis \o MockBasketball

\* a call that has not been made
IdleCall ==
    [pc |-> "idle", sport |-> <<>>, hit |-> FALSE, events |-> <<>>,
     odds |-> <<>>, bovada |-> <<>>, requested |-> {}, result |-> <<>>]

Calls == 1..MaxCalls

\* bovada.js:39-55 once fetchFromBovadaDirect is not needed or has returned
Finished(call, evs) ==
    LET final == IF evs = <<>> THEN getMockEvents(call.sport) ELSE evs
    IN  [call EXCEPT !.pc = "done", !.events = final, !.result = final]

\* bovada.js:39-41: fetchFromBovadaDirect is called and awaited
AwaitBovada(call) ==
    [call EXCEPT !.pc = "awaitBovada",
                 !.requested = IF BovadaRequested(call.sport)
                               THEN call.requested \cup {"bovada"} ELSE call.requested]

\* fetchBovadaEvents is called and runs to its first await, or to its return
\* when the cached entry is fresh
CallFetch(c) ==
    /\ calls[c].pc = "idle"
    /\ \E sport \in Sports :
          LET cached == eventCache[CacheKey(sport)]
              call == [calls[c] EXCEPT !.sport = sport]
          IN  calls' = [calls EXCEPT ![c] =
                  IF IsFresh(cached, now)
                  THEN [call EXCEPT !.pc = "done", !.hit = TRUE,
                                    !.result = cached.events]
                  ELSE IF Truthy(oddsApiKey)
                  THEN [call EXCEPT !.pc = "awaitOdds",
                                    !.requested = IF OddsRequested(sport)
                                                  THEN {"odds"} ELSE {}]
                  ELSE AwaitBovada(call)]
    /\ UNCHANGED <<eventCache, now, oddsApiKey>>
    /\ UNCHANGED <<pc, matcherVars, urlVars, botVars>>

\* fetchFromOddsAPI settles; with events the call stores them and returns
OddsReturns(c) ==
    /\ calls[c].pc = "awaitOdds"
    /\ \E outcome \in (IF OddsRequested(calls[c].sport) THEN OddsOutcomes
                         ELSE {NoRequest}) :
          LET ret == SourceReturns(outcome)
              call == [calls[c] EXCEPT !.odds = ret.events, !.events = ret.events]
          IN  IF ret.raised
              THEN /\ calls' = [calls EXCEPT ![c] = [call EXCEPT !.pc = "rejected"]]
                   /\ UNCHANGED eventCache
              ELSE IF ret.events = <<>>
              THEN /\ calls' = [calls EXCEPT ![c] = AwaitBovada(call)]
                   /\ UNCHANGED eventCache
              ELSE /\ calls' = [calls EXCEPT ![c] = Finished(call, ret.events)]
                   /\ eventCache' = [eventCache EXCEPT ![CacheKey(call.sport)] =
                                         Entry(ret.events, now)]
    /\ UNCHANGED <<now, oddsApiKey>>
    /\ UNCHANGED <<pc, matcherVars, urlVars, botVars>>

\* fetchFromBovadaDirect settles; the call falls back to the mock events
\* when it has none, stores its events and returns
BovadaReturns(c) ==
    /\ calls[c].pc = "awaitBovada"
    /\ \E outcome \in (IF BovadaRequested(calls[c].sport) THEN BovadaOutcomes
                         ELSE {NoRequest}) :
          LET ret == SourceReturns(outcome)
              call == [calls[c] EXCEPT !.bovada = ret.events, !.events = ret.events]
          IN  IF ret.raised
              THEN /\ calls' = [calls EXCEPT ![c] = [call EXCEPT !.pc = "rejected"]]
                   /\ UNCHANGED eventCache
              ELSE /\ calls' = [calls EXCEPT ![c] = Finished(call, ret.events)]
                   /\ eventCache' = [eventCache EXCEPT ![CacheKey(call.sport)] =
                                         Entry(calls'[c].result, now)]
    /\ UNCHANGED <<now, oddsApiKey>>
    /\ UNCHANGED <<pc, matcherVars, urlVars, botVars>>

\* clearEventCache
ClearEventCache ==
    /\ eventCache' = [k \in DOMAIN eventCache |-> NoEntry]
    /\ UNCHANGED <<now, oddsApiKey, calls>>
    /\ UNCHANGED <<pc, matcherVars, urlVars, botVars>>

\* a minute passes
Tick ==
    /\ now < MaxClock
    /\ now' = now + 1
    /\ UNCHANGED <<eventCache, oddsApiKey, calls>>
    /\ UNCHANGED <<pc, matcherVars, urlVars, botVars>>

\* the module has been loaded and fetchBovadaEvents has not been called
CacheIdle ==
    /\ eventCache = [k \in CacheKeys |-> NoEntry]
    /\ now = 0
    /\ oddsApiKey = ""
    /\ calls = [c \in Calls |-> IdleCall]

----------------------------------------------------------------------------
(* bot.js: the MessageCreate listener and handlePickMessage *)

\* what a message may say
Command == <<"!", "b", "e", "t", " ", "L", "e", "e">>
Short == <<"L", "e", "e">>
Plain == <<"L", "e", "e", " ", "M", "L">>
DebugPick == <<"L", "e", "e", " ", "/", "d", "E", "b", "u", "g">>
Contents == {<<>>, Command, Short, Plain, DebugPick}

Channels == {"picks", "general"}
MinContentLength == 5

\* bot.js:157-164, the three tests of the listener
Ignored(msg, channelId) ==
    \/ msg.authorBot
    \/ (Truthy(channelId) /\ msg.channel # channelId)
    \/ StartsWith(msg.content, <<"!">>)
    \/ Len(msg.content) < MinContentLength

\* message.content.toLowerCase().includes('/debug')
DebugMode(content) == Includes(ToLowerCase(content), <<"/", "d", "e", "b", "u", "g">>)

\* a message that has not arrived
NoMessage ==
    [pc |-> "pending", authorBot |-> FALSE, channel |-> "picks", content |-> <<>>,
     debugMode |-> FALSE, parsed |-> "none", matched |-> FALSE,
     parserCalls |-> 0, matcherCalls |-> 0, replies |-> 0]

Messages == 1..MaxMessages

\* an error has left the listener: the process ends on the unhandled rejection
Down == \E m \in Messages : messages[m].pc = "unhandledRejection"

\* a listener that awaits handlePickMessage outside any try block
ThrownUncaught(msg) == [msg EXCEPT !.pc = "unhandledRejection"]

\* handlePickMessage throws: the listener's catch clause logs the error
\* (bot.js:166-170)
ThrownInHandler(msg) == [msg EXCEPT !.pc = "failed"]

\* message.reply is called and awaited
Replying(msg, next) == [msg EXCEPT !.pc = next, !.replies = msg.replies + 1]

\* the next message arrives: the listener ignores it, or calls
\* handlePickMessage, which runs to its first await, the call of parsePick
MessageCreate(m) ==
    /\ ~Down
    /\ messages[m].pc = "pending"
    /\ \A earlier \in 1..(m - 1) : messages[earlier].pc # "pending"
    /\ \E authorBot \in BOOLEAN : \E channel \in Channels : \E content \in Contents :
          LET msg == [messages[m] EXCEPT !.authorBot = authorBot, !.channel = channel,
                                         !.content = content]
          IN  messages' = [messages EXCEPT ![m] =
                  IF Ignored(msg, picksChannelId)
                  THEN [msg EXCEPT !.pc = "ignored"]
                  ELSE [msg EXCEPT !.pc = "awaitParse",
                                   !.debugMode = DebugMode(content),
                                   !.parserCalls = msg.parserCalls + 1]]
    /\ UNCHANGED <<picksChannelId, pc, matcherVars, urlVars, cacheVars>>

\* parsePick settles (bot.js:197-209)
ParseReturns(m) ==
    /\ ~Down
    /\ messages[m].pc = "awaitParse"
    /\ \E outcome \in {"throws", "null", "invalid", "valid"} :
          LET msg == [messages[m] EXCEPT !.parsed = outcome]
          IN  messages' = [messages EXCEPT ![m] =
                  IF outcome = "throws" THEN ThrownInHandler(msg)
                  ELSE IF outcome \in {"null", "invalid"}
                  THEN IF msg.debugMode THEN Replying(msg, "awaitLastReply")
                       ELSE [msg EXCEPT !.pc = "handled"]
                  ELSE [msg EXCEPT !.pc = "awaitFetch"]]
    /\ UNCHANGED <<picksChannelId, pc, matcherVars, urlVars, cacheVars>>

\* fetchBovadaEvents settles and matcher.js is imported (bot.js:212-215)
FetchReturns(m) ==
    /\ ~Down
    /\ messages[m].pc = "awaitFetch"
    /\ \E outcome \in {"throws", "events"} :
          messages' = [messages EXCEPT ![m] =
              IF outcome = "throws" THEN ThrownInHandler(messages[m])
              ELSE [messages[m] EXCEPT !.pc = "awaitImport"]]
    /\ UNCHANGED <<picksChannelId, pc, matcherVars, urlVars, cacheVars>>

\* the import settles and findMatchingEventWithDebug is called (bot.js:215-216)
ImportReturns(m) ==
    /\ ~Down
    /\ messages[m].pc = "awaitImport"
    /\ messages' = [messages EXCEPT ![m] =
           [messages[m] EXCEPT !.pc = "awaitMatch",
                               !.matcherCalls = messages[m].matcherCalls + 1]]
    /\ UNCHANGED <<picksChannelId, pc, matcherVars, urlVars, cacheVars>>

\* bot.js:224-243 for a message not in debug mode, and for one in debug
\* mode after its debug reply: without a matched event the reply says so,
\* with one the URL is built and the reply holds the link, and in debug
\* mode neither is sent
AfterDebug(msg) ==
    IF ~msg.matched
    THEN IF ~msg.debugMode THEN Replying(msg, "awaitLastReply")
         ELSE [msg EXCEPT !.pc = "handled"]
    ELSE IF ~msg.debugMode THEN Replying(msg, "awaitLastReply")
         ELSE [msg EXCEPT !.pc = "handled"]

\* findMatchingEventWithDebug settles (bot.js:216-222)
MatchReturns(m) ==
    /\ ~Down
    /\ messages[m].pc = "awaitMatch"
    /\ \E outcome \in {"throws", "event", "null"} :
          LET msg == [messages[m] EXCEPT !.matched = (outcome = "event")]
          IN  messages' = [messages EXCEPT ![m] =
                  IF outcome = "throws" THEN ThrownInHandler(messages[m])
                  ELSE IF msg.debugMode THEN Replying(msg, "awaitDebugReply")
                  ELSE AfterDebug(msg)]
    /\ UNCHANGED <<picksChannelId, pc, matcherVars, urlVars, cacheVars>>

\* the debug reply settles (bot.js:221)
DebugReplyReturns(m) ==
    /\ ~Down
    /\ messages[m].pc = "awaitDebugReply"
    /\ \E outcome \in {"throws", "sent"} :
          messages' = [messages EXCEPT ![m] =
              IF outcome = "throws" THEN ThrownInHandler(messages[m])
              ELSE AfterDebug(messages[m])]
    /\ UNCHANGED <<picksChannelId, pc, matcherVars, urlVars, cacheVars>>

\* the last reply of handlePickMessage settles (bot.js:204, 227, 242)
LastReplyReturns(m) ==
    /\ ~Down
    /\ messages[m].pc = "awaitLastReply"
    /\ \E outcome \in {"throws", "sent"} :
          messages' = [messages EXCEPT ![m] =
              IF outcome = "throws" THEN ThrownInHandler(messages[m])
              ELSE [messages[m] EXCEPT !.pc = "handled"]]
    /\ UNCHANGED <<picksChannelId, pc, matcherVars, urlVars, cacheVars>>

\* the bot has been created and no message has arrived
BotIdle ==
    /\ picksChannelId = ""
    /\ messages = [m \in Messages |-> NoMessage]

ServicesIdle == UrlIdle /\ CacheIdle /\ BotIdle

Init ==
    /\ \/ pick \in Picks /\ events \in ShortLists
       \/ pick \in LongPicks /\ events \in LongLists
    /\ apiKey \in ApiKeys
    /\ pc = "start"
    /\ rawScores = <<>>
    /\ simpleResult = NullResult
    /\ candidates = <<>>
    /\ llmCalls = 0
    /\ eventSummaries = <<>>
    /\ response = NoResponse
    /\ llmMatch = Value(NullEvent)
    /\ result = NoResult
    /\ normalizedPlayers = <<>>
    /\ eventParticipants = <<>>
    /\ bonuses = <<>>
    /\ run = 1
    /\ firstResult = NoResult
    /\ rawName = <<>>
    /\ normalized = <<>>
    /\ renormalized = <<>>
    /\ plainNormalized = <<>>
    /\ ServicesIdle

Next == Resolve \/ ResolverReturns

Spec == Init /\ [][Next]_vars

\* what no call has touched yet
Untouched ==
    /\ pc = "start"
    /\ rawScores = <<>>
    /\ simpleResult = NullResult
    /\ candidates = <<>>
    /\ llmCalls = 0
    /\ eventSummaries = <<>>
    /\ response = NoResponse
    /\ llmMatch = Value(NullEvent)
    /\ result = NoResult
    /\ normalizedPlayers = <<>>
    /\ eventParticipants = <<>>
    /\ bonuses = <<>>
    /\ run = 1
    /\ firstResult = NoResult
    /\ normalized = <<>>
    /\ renormalized = <<>>
    /\ plainNormalized = <<>>

\* The scorer called on its own, on every pick of up to MaxPlayers players
\* against every list of up to MaxEvents events
ScorerInit ==
    /\ pick \in Picks
    /\ events \in ShortLists
    /\ apiKey = ""
    /\ rawName = <<>>
    /\ Untouched
    /\ ServicesIdle

ScorerNext == Score

ScorerSpec == ScorerInit /\ [][ScorerNext]_vars

\* The same input resolved MaxRuns times, the resolver being deterministic
RepeatPicks == {p \in Picks : Len(p.players) <= 1}

RepeatInit ==
    /\ pick \in RepeatPicks
    /\ events \in ShortLists
    /\ apiKey \in ApiKeys
    /\ rawName = <<>>
    /\ Untouched
    /\ ServicesIdle

RepeatNext == Resolve \/ ResolverRepeats \/ Rerun

RepeatSpec == RepeatInit /\ [][RepeatNext]_vars

\* normalizePlayerName called on every name of up to MaxNameLen characters
NameChars == {"A", "e", "e_acute", "E_acute", CombiningAcute, " ", "\t", "-", "7"}
Names == UNION {[1..n -> NameChars] : n \in 0..MaxNameLen}

NormInit ==
    /\ rawName \in Names
    /\ pick = [players |-> <<>>, sport |-> <<>>, league |-> <<>>]
    /\ events = <<>>
    /\ apiKey = ""
    /\ Untouched
    /\ ServicesIdle

NormNext == Normalize

NormSpec == NormInit /\ [][NormNext]_vars

\* no matcher call is under way
MatcherIdle ==
    /\ pick = [players |-> <<>>, sport |-> <<>>, league |-> <<>>]
    /\ events = <<>>
    /\ apiKey = ""
    /\ rawName = <<>>
    /\ Untouched

\* slugify called on every string of up to MaxNameLen characters
SlugInit ==
    /\ slugInput \in Names
    /\ urlEvent = NoUrlEvent
    /\ zone = "UTC"
    /\ slug = <<>>
    /\ reslug = <<>>
    /\ url = <<>>
    /\ CacheIdle
    /\ BotIdle
    /\ MatcherIdle

SlugNext == Slugify

SlugSpec == SlugInit /\ [][SlugNext]_vars

\* the links, raw events and paths of the events given to buildBovadaUrl
RelativeLink == <<"/", "t", "/", "a", "-", "b", "-", "1">>
AbsoluteLink == <<"h", "t", "t", "p", "s", ":", "/", "/", "x", ".", "l", "v", "/", "1">>
HttpWord == <<"h", "t", "t", "p", "d">>
BareLink == <<"t", "/", "a">>
Links == {<<>>, RelativeLink, AbsoluteLink, HttpWord, BareLink}

RawEvents ==
    {NoRaw,
     [present |-> TRUE, link |-> <<"a", "-", "b", "-", "2">>, participant1 |-> <<>>,
      participant2 |-> <<>>, startTime |-> NoTime],
     [present |-> TRUE, link |-> <<>>, participant1 |-> <<>>,
      participant2 |-> <<>>, startTime |-> ValidTime]}

PathItems ==
    {[link |-> <<>>, description |-> Atp1],
     [link |-> <<"/", "t", "e", "n", "n", "i", "s">>, description |-> Tennis]}
Paths ==
    {NoPath} \cup
    {[present |-> TRUE, items |-> p] :
        p \in UNION {[1..n -> PathItems] : n \in 0..MaxPath}}

UrlEvents ==
    [link : Links, raw : RawEvents, path : Paths, sport : {<<>>, Tennis},
     league : {<<>>, Atp1}, participant1 : {<<>>, AlLeeAccent},
     participant2 : {<<>>, BoRay}, startTime : StartTimes]

\* buildBovadaUrl called on every such event in every time zone
UrlInit ==
    /\ urlEvent \in UrlEvents
    /\ zone \in Zones
    /\ slugInput = <<>>
    /\ slug = <<>>
    /\ reslug = <<>>
    /\ url = <<>>
    /\ CacheIdle
    /\ BotIdle
    /\ MatcherIdle

UrlNext == BuildUrl

UrlSpec == UrlInit /\ [][UrlNext]_vars

\* up to MaxCalls calls of fetchBovadaEvents, with or without an Odds API
\* key, while the clock runs and the cache may be cleared
CacheInit ==
    /\ eventCache = [k \in CacheKeys |-> NoEntry]
    /\ now = 0
    /\ oddsApiKey \in ApiKeys
    /\ calls = [c \in Calls |-> IdleCall]
    /\ UrlIdle
    /\ BotIdle
    /\ MatcherIdle

CacheNext ==
    \/ \E c \in Calls : CallFetch(c)
    \/ \E c \in Calls : OddsReturns(c)
    \/ \E c \in Calls : BovadaReturns(c)
    \/ ClearEventCache
    \/ Tick

CacheSpec == CacheInit /\ [][CacheNext]_vars

\* MaxMessages messages arrive at a bot with or without a picks channel
BotInit ==
    /\ picksChannelId \in {"", "picks"}
    /\ messages = [m \in Messages |-> NoMessage]
    /\ UrlIdle
    /\ CacheIdle
    /\ MatcherIdle

BotNext ==
    \/ \E m \in Messages : MessageCreate(m)
    \/ \E m \in Messages : ParseReturns(m)
    \/ \E m \in Messages : FetchReturns(m)
    \/ \E m \in Messages : ImportReturns(m)
    \/ \E m \in Messages : MatchReturns(m)
    \/ \E m \in Messages : DebugReplyReturns(m)
    \/ \E m \in Messages : LastReplyReturns(m)

BotSpec == BotInit /\ [][BotNext]_vars

----------------------------------------------------------------------------
(* Properties *)

\* the greatest of a non-empty set of scores
MaxScore(S) == CHOOSE m \in S : \A x \in S : FGe(m, x)

\* the resolver returned an event
ResolverSelected == llmCalls > 0 /\ pc = "done" /\ IsEvent(llmMatch.value)

\* the lexical result was accepted in the first test
LexicalAccepted ==
    /\ ~simpleResult.isNull
    /\ \/ FGe(simpleResult.confidence, Dec(7))
       \/ FGe(simpleResult.confidence, Dec(5)) /\ apiKey = ""

\* what the fallback steps give: the lexical best from 0.3 on, else no event
LexicalFloor ==
    IF ~simpleResult.isNull /\ FGe(simpleResult.confidence, Dec(3))
    THEN Returned(simpleResult.event, simpleResult.confidence, candidates)
    ELSE Returned(NullEvent, Dec(0), candidates)

\* C1: a pick without players, against a non-empty event list, gets event
\* null and confidence 0 and the resolver is never invoked, with or without
\* an API key.
C1_EmptyPlayersNoResolver ==
    (pick.players = <<>> /\ events # <<>>) =>
        /\ llmCalls = 0
        /\ pc = "done" =>
              /\ result.status = "returned"
              /\ result.event = NullEvent
              /\ result.confidence = Dec(0)

\* C2: with an empty event list the call returns exactly {event: null,
\* confidence: 0, candidates: []} at once; the resolver is never invoked.
C2_EmptyEventsImmediate ==
    events = <<>> =>
        /\ llmCalls = 0
        /\ pc # "awaitLLM"
        /\ pc = "done" => result = Returned(NullEvent, Dec(0), <<>>)

C2_Witness ==
    /\ pc = "done"
    /\ events = <<>>
    /\ apiKey # ""
    /\ pick.players # <<>>
    /\ result.status = "returned"

\* C3: when the lexical confidence is >= 0.7, or >= 0.5 with no API key, the
\* result is the lexical best event with the lexical confidence and the
\* scorer's candidate list, and the resolver is not invoked.
C3_LexicalAccept ==
    (pc # "start" /\ events # <<>> /\ LexicalAccepted) =>
        /\ pc = "done"
        /\ llmCalls = 0
        /\ result = Returned(simpleResult.event, simpleResult.confidence,
                             simpleResult.allCandidates)

C3_Witness ==
    /\ pc = "done"
    /\ apiKey # ""
    /\ LexicalAccepted
    /\ simpleResult.confidence = Dec(7)
    /\ result.event = simpleResult.event
    /\ result.event # NullEvent

\* C4: when the resolver is invoked and selects an event, the result is that
\* event with confidence exactly 0.9, whatever confidence the resolver
\* reported and whatever the lexical best and its score are.
C4_ResolverSelection ==
    (/\ pc = "done"
     /\ llmCalls > 0
     /\ response.kind = "json"
     /\ response.matchIndex.type = "int"
     /\ response.matchIndex.value \in 0..(Len(events) - 1)) =>
        result = Returned(response.matchIndex.value + 1, Dec(9), candidates)

C4_Witness ==
    /\ ResolverSelected
    /\ response.confidence = 0
    /\ ~simpleResult.isNull
    /\ simpleResult.event # NullEvent
    /\ simpleResult.event # llmMatch.value
    /\ FGe(simpleResult.confidence, Dec(5))
    /\ result.event = llmMatch.value
    /\ result.confidence = Dec(9)

\* C5: a failure of the resolver (request error or timeout, non-text content,
\* unparsable JSON, missing or null fields) is never raised by the call: the
\* call returns what the lexical fallback steps give.
C5_ResolverFailureDegrades ==
    (/\ pc = "done"
     /\ llmCalls > 0
     /\ \/ response.kind \in {"rejected", "nocontent", "nontext", "unparsable", "jsonnull"}
        \/ response.kind = "json" /\ response.matchIndex.type \in {"null", "missing"}) =>
        /\ result.status = "returned"
        /\ result = LexicalFloor

C5_Witness ==
    /\ pc = "done"
    /\ llmCalls = 1
    /\ response.kind = "rejected"
    /\ result.status = "returned"
    /\ result.event # NullEvent
    /\ result.event = simpleResult.event

\* C6: an index from the resolver outside the slice of events it was sent
\* (the first 50) is treated as no selection and never picks an event, also
\* for lists longer than 50.
C6_OutOfSliceRejected ==
    (/\ pc = "done"
     /\ llmCalls > 0
     /\ response.kind = "json"
     /\ response.matchIndex.type = "int"
     /\ response.matchIndex.value \notin 0..(Len(eventSummaries) - 1)) =>
        /\ llmMatch = Value(NullEvent)
        /\ result = LexicalFloor

\* C7: when the first test does not accept and the resolver is unavailable or
\* selects nothing, the result is the lexical best with its confidence if
\* that is >= 0.3 and otherwise event null with confidence 0; either way
\* candidates is the scorer's whole candidate list.
C7_LexicalFallback ==
    (/\ pc = "done"
     /\ events # <<>>
     /\ ~LexicalAccepted
     /\ (apiKey = "" \/ ~IsEvent(llmMatch.value))) =>
        /\ result = LexicalFloor
        /\ result.candidates = (IF simpleResult.isNull THEN <<>> ELSE simpleResult.allCandidates)

C7_Witness ==
    /\ pc = "done"
    /\ events # <<>>
    /\ ~LexicalAccepted
    /\ result.status = "returned"
    /\ result.event = NullEvent
    /\ result.candidates # <<>>

\* C8 as stated: on every path, a non-null event comes with confidence > 0
\* and with an entry for it in candidates.  It is stated here for picks that
\* have players and for events within the slice the resolver was sent, the
\* cases that C1 and C6 do not touch.
C8_EventAmongCandidates ==
    (/\ pc = "done"
     /\ result.status = "returned"
     /\ result.event # NullEvent
     /\ pick.players # <<>>
     /\ result.event <= SliceLimit) =>
        /\ FGt(result.confidence, Dec(0))
        /\ \E k \in 1..Len(result.candidates) : result.candidates[k].event = result.event

\* C8 as amended: a non-null event comes with confidence > 0 and, unless the
\* resolver selected it, with an entry for it in candidates.
C8_LexicalEventAmongCandidates ==
    (pc = "done" /\ result.status = "returned" /\ result.event # NullEvent) =>
        /\ FGt(result.confidence, Dec(0))
        /\ ~ResolverSelected =>
              \E k \in 1..Len(result.candidates) : result.candidates[k].event = result.event

C8_Witness ==
    /\ pc = "done"
    /\ llmCalls = 1
    /\ ~ResolverSelected
    /\ result.event # NullEvent
    /\ ~FGe(result.confidence, Dec(5))
    /\ Len(result.candidates) > 1
    /\ \E k \in 1..Len(result.candidates) : result.candidates[k].event = result.event

\* C9: the scorer's confidence is min(bestScore, 1.0), bestScore being the
\* greatest raw score of the events, and every confidence of the scorer and
\* of the policy lies in [0, 1].
C9_ConfidenceClamped ==
    (pc # "start" /\ events # <<>>) =>
        /\ ~simpleResult.isNull =>
              LET bestScore == MaxScore({rawScores[i] : i \in 1..Len(events)})
              IN  simpleResult.confidence
                     = IF FGt(bestScore, Dec(10)) THEN Dec(10) ELSE bestScore
        /\ FGe(simpleResult.confidence, Dec(0)) /\ FGe(Dec(10), simpleResult.confidence)
        /\ FGe(result.confidence, Dec(0)) /\ FGe(Dec(10), result.confidence)

C9_Witness ==
    /\ pc = "done"
    /\ Len(pick.players) > 1
    /\ \E i \in 1..Len(events) : FGt(rawScores[i], Dec(10))
    /\ simpleResult.confidence = Dec(10)
    /\ result.confidence = Dec(10)

\* C10: of several events with the top raw score the scorer selects the one
\* earliest in the input, and candidates with equal scores keep the order of
\* their events in the input.
C10_TiesKeepInputOrder ==
    (pc # "start" /\ events # <<>> /\ ~simpleResult.isNull) =>
        /\ simpleResult.event # NullEvent =>
              /\ \A j \in 1..Len(events) : FGe(rawScores[simpleResult.event], rawScores[j])
              /\ \A j \in 1..(simpleResult.event - 1) :
                     rawScores[j] # rawScores[simpleResult.event]
        /\ \A a, b \in 1..Len(simpleResult.allCandidates) :
               (a < b /\ simpleResult.allCandidates[a].score = simpleResult.allCandidates[b].score)
                   => simpleResult.allCandidates[a].event < simpleResult.allCandidates[b].event

C10_Witness ==
    /\ pc = "done"
    /\ ~simpleResult.isNull
    /\ Len(events) = 2
    /\ events[1] # events[2]
    /\ FGt(rawScores[1], Dec(0))
    /\ rawScores[1] = rawScores[2]
    /\ simpleResult.event = 1
    /\ Len(simpleResult.allCandidates) = 2
    /\ simpleResult.allCandidates[1].event = 1

\* the scorer, called on its own, has returned an object
Scored == pc = "scored" /\ ~simpleResult.isNull

\* the positions of the candidate list that hold event i
EntriesOf(i) ==
    {k \in 1..Len(simpleResult.allCandidates) : simpleResult.allCandidates[k].event = i}

\* C11: the scorer's candidate list has exactly one entry for each event
\* that scored above 0, carrying that score, and none for an event that
\* scored 0; it is ordered by score descending; and a non-null event of the
\* scorer is the event of the first candidate.
C11_CandidateList ==
    Scored =>
        /\ \A i \in 1..Len(events) :
               /\ Cardinality(EntriesOf(i)) = IF FGt(rawScores[i], Dec(0)) THEN 1 ELSE 0
               /\ \A k \in EntriesOf(i) : simpleResult.allCandidates[k].score = rawScores[i]
        /\ \A k \in 1..Len(simpleResult.allCandidates) :
               simpleResult.allCandidates[k].event \in 1..Len(events)
        /\ \A a, b \in 1..Len(simpleResult.allCandidates) :
               a < b => FGe(simpleResult.allCandidates[a].score,
                            simpleResult.allCandidates[b].score)
        /\ simpleResult.event # NullEvent =>
               simpleResult.allCandidates[1].event = simpleResult.event

C11_Witness ==
    /\ Scored
    /\ Len(events) = 2
    /\ FGt(rawScores[1], Dec(0))
    /\ FGt(rawScores[2], rawScores[1])
    /\ Len(simpleResult.allCandidates) = 2
    /\ simpleResult.allCandidates[1].event = 2
    /\ simpleResult.event = 2

\* the cases of C12: no players, no events, or no event that scores above 0
NothingToMatch ==
    \/ pick.players = <<>>
    \/ events = <<>>
    \/ \A i \in 1..Len(rawScores) : rawScores[i] = Dec(0)

\* {event: null, confidence: 0, allCandidates: []}
EmptyMatch ==
    [isNull |-> FALSE, event |-> NullEvent, confidence |-> Dec(0), allCandidates |-> <<>>]

\* C12 as stated: the scorer returns {event: null, confidence: 0,
\* candidates: []} when pick.players is empty, when the event list is empty
\* and when no event scores above 0.
C12_EmptyMatchInEachCase ==
    (pc = "scored" /\ NothingToMatch) => simpleResult = EmptyMatch

\* C12 as amended: without players the scorer returns null, whatever the
\* events are; with players it returns {event: null, confidence: 0,
\* allCandidates: []} when the event list is empty and when no event scores
\* above 0.
C12_NullWithoutPlayers ==
    (pc = "scored" /\ NothingToMatch) =>
        simpleResult = IF pick.players = <<>> THEN NullResult ELSE EmptyMatch

C12_Witness ==
    /\ pc = "scored"
    /\ pick.players # <<>>
    /\ Len(events) = 2
    /\ rawScores = <<Dec(0), Dec(0)>>
    /\ simpleResult = EmptyMatch

\* the rules of the player bonus, for a normalized player p and a normalized
\* participant q, as the specification words them
ExactRule(p, q) == q = p
ContainedRule(p, q) == Len(p) >= 3 /\ Includes(q, p)
ContainsRule(p, q) == Len(q) >= 3 /\ Includes(p, q)
TokenRule(p, q) ==
    \E a \in 1..Len(Split(p)) : \E b \in 1..Len(Split(q)) :
        Len(Split(p)[a]) > 2 /\ Includes(Split(q)[b], Split(p)[a])
AnyRule(p, q) == ExactRule(p, q) \/ ContainedRule(p, q) \/ ContainsRule(p, q) \/ TokenRule(p, q)

\* the bonus of the first rule, in their order, that fires for p and q
FirstRule(p, q) ==
    IF ExactRule(p, q) THEN 7
    ELSE IF ContainedRule(p, q) THEN 6
    ELSE IF ContainsRule(p, q) THEN 5
    ELSE 4

\* the positions of the pool of event i at which some rule fires for player j
Firing(i, j) ==
    {k \in 1..Len(eventParticipants[i]) :
        AnyRule(normalizedPlayers[j], eventParticipants[i][k])}

\* the pool of event i holds the non-empty ones of participant1,
\* participant2, description and displayName, in this order, normalized
PoolInOrder(i) ==
    LET e == events[i]
        One(f) == IF f = <<>> THEN <<>> ELSE <<f>>
        raw == One(e.participant1) \o One(e.participant2) \o One(e.description)
                   \o One(e.displayName)
    IN  /\ Len(eventParticipants[i]) = Len(raw)
        /\ \A k \in 1..Len(raw) : eventParticipants[i][k] = normalizePlayerName(raw[k])

\* the least element of a non-empty set of numbers
Least(S) == CHOOSE m \in S : \A x \in S : m <= x

\* C13: what a player adds to an event's score is decided by the first
\* participant of the pool for which any rule fires, and for it by the first
\* rule that fires in the order exact (0.7), player within participant (0.6),
\* participant within player (0.5), token (0.4); it is 0 when none fires, so
\* it is one of 0, 0.4, 0.5, 0.6, 0.7.
C13_FirstParticipantFirstRule ==
    Scored =>
        \A i \in 1..Len(events) :
            /\ PoolInOrder(i)
            /\ \A j \in 1..Len(pick.players) :
                   /\ bonuses[i][j] \in {0, 4, 5, 6, 7}
                   /\ bonuses[i][j] =
                          IF Firing(i, j) = {} THEN 0
                          ELSE FirstRule(normalizedPlayers[j],
                                         eventParticipants[i][Least(Firing(i, j))])

\* a later participant equals the player, an earlier one fires the token rule
C13_Witness ==
    /\ Scored
    /\ \E i \in 1..Len(events) : \E j \in 1..Len(pick.players) :
           /\ Len(eventParticipants[i]) = 2
           /\ eventParticipants[i][2] = normalizedPlayers[j]
           /\ Least(Firing(i, j)) = 1
           /\ bonuses[i][j] = 4

\* the sum of the elements of a sequence of numbers
RECURSIVE Sum(_)
Sum(q) == IF q = <<>> THEN 0 ELSE Head(q) + Sum(Tail(q))

\* C14: an event's raw score is the sum of 0.2 if pick.sport is set and
\* equals event.sport without regard to case, 0.1 if pick.league is set and
\* lies within event.league without regard to case, and the bonus of every
\* player of the pick (the double that these additions give lies within one
\* double of the exact sum).
C14_ScoreIsSum ==
    Scored =>
        \A i \in 1..Len(events) :
            /\ rawScores[i].t =
                   (IF pick.sport # <<>>
                       /\ ToLowerCase(pick.sport) = ToLowerCase(events[i].sport)
                    THEN 2 ELSE 0)
                   + (IF pick.league # <<>>
                         /\ Includes(ToLowerCase(events[i].league), ToLowerCase(pick.league))
                      THEN 1 ELSE 0)
                   + Sum(bonuses[i])
            /\ rawScores[i].d \in {-1, 0, 1}

\* a doubles pick: both players add to the event that names the pair
C14_Witness ==
    /\ Scored
    /\ Len(pick.players) = 2
    /\ pick.players[1] # pick.players[2]
    /\ \E i \in 1..Len(events) :
           /\ events[i].description # <<>>
           /\ bonuses[i][1] > 0
           /\ bonuses[i][2] > 0
           /\ rawScores[i].t = 2 + bonuses[i][1] + bonuses[i][2]
           /\ simpleResult.event = i

\* player j equals a participant of event i
EqualsParticipant(i, j) ==
    \E k \in 1..Len(eventParticipants[i]) :
        ExactRule(normalizedPlayers[j], eventParticipants[i][k])

\* player j matches event i through the token rule only
TokenOnly(i, j) ==
    /\ \E k \in 1..Len(eventParticipants[i]) :
           TokenRule(normalizedPlayers[j], eventParticipants[i][k])
    /\ \A k \in 1..Len(eventParticipants[i]) :
           /\ ~ExactRule(normalizedPlayers[j], eventParticipants[i][k])
           /\ ~ContainedRule(normalizedPlayers[j], eventParticipants[i][k])
           /\ ~ContainsRule(normalizedPlayers[j], eventParticipants[i][k])

\* C15: for any event, a player whose normalized name equals a normalized
\* participant of the event adds strictly more to the event's score than a
\* player that matches the event through the token rule only, whatever the
\* other participants and their order.
C15_ExactAboveToken ==
    Scored =>
        \A i \in 1..Len(events) : \A j, k \in 1..Len(pick.players) :
            (EqualsParticipant(i, j) /\ TokenOnly(i, k)) => bonuses[i][j] > bonuses[i][k]

\* the pick names the sport of event i, and a player of the pick, of three
\* characters or more, lies within a participant of event i
LastNameWithin(i) ==
    /\ pick.sport # <<>>
    /\ ToLowerCase(pick.sport) = ToLowerCase(events[i].sport)
    /\ \E j \in 1..Len(pick.players) : \E k \in 1..Len(Participants(events[i])) :
           ContainedRule(normalizePlayerName(pick.players[j]), Participants(events[i])[k])

\* C16: when the pick's sport is an event's sport and a player of the pick,
\* of length >= 3 when normalized, lies within a normalized participant of
\* that event, the lexical confidence is >= 0.7 and the call returns a
\* non-null event without invoking the resolver, available or not.
C16_LastNameResolvesDirectly ==
    (pc # "start" /\ \E i \in 1..Len(events) : LastNameWithin(i)) =>
        /\ ~simpleResult.isNull
        /\ FGe(simpleResult.confidence, Dec(7))
        /\ llmCalls = 0
        /\ pc = "done"
        /\ result.event # NullEvent

\* no rule fires for any player of the pick on any participant of any event
NoPlayerMatches ==
    \A i \in 1..Len(events) : \A j \in 1..Len(pick.players) : Firing(i, j) = {}

\* C17: when no player of the pick fires any rule on any participant of any
\* event, the scorer returns no event or a confidence strictly below 0.5,
\* whatever the sport and league bonuses are.
C17_NoPlayerMatchStaysLow ==
    (pc = "scored" /\ NoPlayerMatches) =>
        \/ simpleResult.isNull
        \/ simpleResult.event = NullEvent
        \/ ~FGe(simpleResult.confidence, Dec(5))

\* sport and league both match, no player does: 0.2 + 0.1
C17_Witness ==
    /\ Scored
    /\ NoPlayerMatches
    /\ simpleResult.event # NullEvent
    /\ simpleResult.confidence = FAdd(Dec(2), 1)
    /\ FGt(simpleResult.confidence, Dec(3))

\* C18: normalizePlayerName is idempotent; what it returns holds only
\* lowercase letters, digits and single spaces between them; an accented
\* name and the same name without accents normalize to the same string.
C18_NormalizeIdempotent ==
    pc = "normalized" =>
        /\ renormalized = normalized
        /\ \A i \in 1..Len(normalized) : normalized[i] \in LowerLetters \cup Digits \cup {" "}
        /\ normalized # <<>> => normalized[1] # " " /\ normalized[Len(normalized)] # " "
        /\ \A i \in 1..(Len(normalized) - 1) : ~(normalized[i] = " " /\ normalized[i + 1] = " ")
        /\ plainNormalized = normalized

C18_Witness ==
    /\ pc = "normalized"
    /\ Unaccented(rawName) # rawName
    /\ normalized # rawName
    /\ Len(normalized) = MaxNameLen
    /\ \E i \in 1..Len(normalized) : normalized[i] = " "
    /\ renormalized = normalized

C20_InputsUnchanged == [][events' = events /\ pick' = pick]_vars

\* the candidates were sorted into another order than that of the events
C20_Witness ==
    /\ pc = "done"
    /\ llmCalls = 1
    /\ Len(events) = 2
    /\ Len(candidates) = 2
    /\ candidates[1].event = 2
    /\ candidates[2].event = 1

\* C23: within one call the resolver is invoked at most once, and only with
\* an API key, a non-empty event list and a lexical confidence below 0.7
\* (none at all when the scorer returned null); the scorer has run, over
\* every event, when the resolver is invoked.
C23_ResolverOnceAfterScorer ==
    /\ llmCalls <= 1
    /\ llmCalls > 0 =>
           /\ apiKey # ""
           /\ events # <<>>
           /\ ~FGe(simpleResult.confidence, Dec(7))
           /\ pick.players # <<>> => Len(rawScores) = Len(events)
           /\ simpleResult.isNull <=> pick.players = <<>>
    /\ pc = "awaitLLM" <=> (llmCalls = 1 /\ result.status = "pending")

C23_Witness ==
    /\ pc = "awaitLLM"
    /\ llmCalls = 1
    /\ FGe(simpleResult.confidence, Dec(5))
    /\ ~FGe(simpleResult.confidence, Dec(7))
    /\ simpleResult.event # NullEvent

\* C24: the resolver is given at most 50 events, the first 50 of the input
\* in input order under their own indices, and an accepted index i gives the
\* i-th event of the input, which is one of the events the resolver was given.
C24_SelectionWasShown ==
    llmCalls > 0 =>
        /\ Len(eventSummaries) <= 50
        /\ Len(eventSummaries) <= Len(events)
        /\ Len(events) <= 50 => Len(eventSummaries) = Len(events)
        /\ \A i \in 1..Len(eventSummaries) :
               /\ eventSummaries[i].index = i - 1
               /\ eventSummaries[i].participant1 = events[i].participant1
               /\ eventSummaries[i].participant2 = events[i].participant2
               /\ eventSummaries[i].sport = events[i].sport
        /\ (pc = "done" /\ IsEvent(llmMatch.value)) =>
               /\ response.matchIndex.type = "int"
               /\ llmMatch.value = response.matchIndex.value + 1
               /\ result.event = llmMatch.value
               /\ llmMatch.value \in 1..Len(eventSummaries)

\* some player of the pick fires a rule on a participant of event i
SomePlayerMatches(i) ==
    \E j \in 1..Len(pick.players) : \E k \in 1..Len(Participants(events[i])) :
        AnyRule(normalizePlayerName(pick.players[j]), Participants(events[i])[k])

\* C25: without a resolver the call returns a non-null event only if a
\* player of the pick fired a rule on a participant of that event: the sport
\* and league bonuses alone never make an event the answer.
C25_NoAnswerWithoutPlayerMatch ==
    (pc = "done" /\ apiKey = "" /\ result.event # NullEvent) =>
        SomePlayerMatches(result.event)

\* the characters a slug may hold
SlugChars == LowerLetters \cup Digits \cup {"-"}

\* C22: slugify applied to its own output changes nothing; the output holds
\* only lowercase letters, digits and hyphens, no two hyphens in a row and
\* no hyphen at either end; the empty (or missing) input gives the empty
\* string.
C22_SlugifyIdempotentAndClean ==
    pc = "slugged" =>
        /\ reslug = slug
        /\ \A i \in 1..Len(slug) : slug[i] \in SlugChars
        /\ \A i \in 1..(Len(slug) - 1) : ~(slug[i] = "-" /\ slug[i + 1] = "-")
        /\ slug # <<>> => (slug[1] # "-" /\ slug[Len(slug)] # "-")
        /\ slugInput = <<>> => slug = <<>>

C22_Witness ==
    /\ pc = "slugged"
    /\ slug # <<>>
    /\ \E i \in 1..(Len(slugInput) - 1) :
           slugInput[i] = "-" /\ slugInput[i + 1] \in Whitespace

\* event.link starts with 'http'
AbsoluteLinked == StartsWith(urlEvent.link, <<"h", "t", "t", "p">>)

\* C21: a set link decides the result, unchanged when it starts with 'http'
\* and behind the base URL otherwise; without a link the URL is built from
\* _path and _raw when both are present, and else from sport, league,
\* participants and start time; every result but an absolute link starts
\* with the base URL.
C21_BranchOrder ==
    pc = "built" =>
        /\ (urlEvent.link # <<>> /\ AbsoluteLinked) => url = urlEvent.link
        /\ (urlEvent.link # <<>> /\ ~AbsoluteLinked) =>
               url = BOVADA_BASE_URL \o urlEvent.link
        /\ (urlEvent.link = <<>> /\ urlEvent.raw.present /\ urlEvent.path.present) =>
               url = constructUrlFromPath(urlEvent.path.items, urlEvent.raw, zone)
        /\ (urlEvent.link = <<>> /\ ~(urlEvent.raw.present /\ urlEvent.path.present)) =>
               url = constructUrl(urlEvent, zone)
        /\ ~(urlEvent.link # <<>> /\ AbsoluteLinked) => StartsWith(url, BOVADA_BASE_URL)

C21_Witness ==
    /\ pc = "built"
    /\ urlEvent.link = RelativeLink
    /\ urlEvent.raw.present
    /\ urlEvent.path.present
    /\ urlEvent.sport # <<>>
    /\ url = BOVADA_BASE_URL \o RelativeLink

\* call c is waiting for a data source
Awaiting(c) == calls[c].pc \in {"awaitOdds", "awaitBovada"}

\* C26: a call made less than 5 minutes after its key's entry was stored
\* returns the stored list and sends no request; a call that finds the
\* entry 5 minutes old or older, or finds none (as after clearEventCache),
\* goes on to the data sources, and when it returns it has replaced the
\* entry of its key by its events under the present time, every other
\* entry being as it was.
C26_CacheWithinTtl ==
    [][/\ \A c \in Calls :
            LET k == CacheKey(calls'[c].sport)
            IN  /\ (calls[c].pc = "idle" /\ calls'[c].pc # "idle") =>
                       IF /\ eventCache[k].present
                          /\ now - eventCache[k].timestamp < CACHE_TTL_MS
                       THEN /\ calls'[c].pc = "done"
                            /\ calls'[c].result = eventCache[k].events
                            /\ calls'[c].requested = {}
                            /\ eventCache' = eventCache
                       ELSE /\ calls'[c].pc \in {"awaitOdds", "awaitBovada"}
                            /\ eventCache' = eventCache
                /\ (Awaiting(c) /\ calls'[c].pc = "done") =>
                       eventCache' = [eventCache EXCEPT
                                         ![k] = Entry(calls'[c].result, now)]
       /\ (calls' = calls /\ eventCache' # eventCache) =>
              \A k \in CacheKeys : ~eventCache'[k].present]_vars

C26_Witness ==
    \E c1 \in Calls : \E c2 \in Calls \ {c1} :
        /\ calls[c1].pc = "done" /\ ~calls[c1].hit
        /\ calls[c2].pc = "done" /\ calls[c2].hit
        /\ calls[c2].sport = calls[c1].sport
        /\ calls[c2].result = calls[c1].result
        /\ eventCache[CacheKey(calls[c1].sport)] =
               Entry(calls[c1].result, now - (CACHE_TTL_MS - 1))

\* C27: a call that missed the cache returns the events of the Odds API if
\* it gave any, else those of Bovada if it gave any, else the mock events;
\* the Odds API is asked only with ODDS_API_KEY set and Bovada only when the
\* Odds API gave nothing; no call is rejected and no returned list is empty.
C27_FirstSourceWithEvents ==
    \A c \in Calls :
        /\ calls[c].pc # "rejected"
        /\ calls[c].pc = "done" => calls[c].result # <<>>
        /\ (calls[c].pc = "done" /\ ~calls[c].hit) =>
               /\ calls[c].result =
                      IF calls[c].odds # <<>> THEN calls[c].odds
                      ELSE IF calls[c].bovada # <<>> THEN calls[c].bovada
                      ELSE getMockEvents(calls[c].sport)
               /\ "odds" \in calls[c].requested => oddsApiKey # ""
               /\ calls[c].odds # <<>> => "bovada" \notin calls[c].requested

C27_Witness ==
    \E c \in Calls :
        /\ calls[c].pc = "done" /\ ~calls[c].hit
        /\ oddsApiKey # ""
        /\ calls[c].requested = {"odds", "bovada"}
        /\ calls[c].odds = <<>> /\ calls[c].bovada = <<>>
        /\ calls[c].result = MockTennis

\* C28: of the calls for one cache key at most one is waiting for a data
\* source it sent a request to.
C28_SingleFlight ==
    \A c1 \in Calls : \A c2 \in Calls \ {c1} :
        ~ /\ Awaiting(c1) /\ calls[c1].requested # {}
          /\ Awaiting(c2) /\ calls[c2].requested # {}
          /\ CacheKey(calls[c1].sport) = CacheKey(calls[c2].sport)

\* C29: no message gets more than one reply; a message from a bot, from
\* another channel than the configured one, starting with '!' or shorter
\* than 5 characters gets none and reaches neither parser nor matcher; an
\* error thrown while a message is handled ends in the listener's catch
\* clause and the bot goes on handling messages.
C29_OneReplyPerMessage ==
    /\ ~Down
    /\ \A m \in Messages :
           /\ messages[m].replies <= 1
           /\ messages[m].parserCalls <= 1
           /\ messages[m].matcherCalls <= 1
           /\ (messages[m].pc # "pending" /\
                  \/ messages[m].authorBot
                  \/ (picksChannelId # "" /\ messages[m].channel # picksChannelId)
                  \/ (messages[m].content # <<>> /\ messages[m].content[1] = "!")
                  \/ Len(messages[m].content) < 5) =>
                  /\ messages[m].pc = "ignored"
                  /\ messages[m].replies = 0
                  /\ messages[m].parserCalls = 0
                  /\ messages[m].matcherCalls = 0

C29_Witness ==
    \E m1 \in Messages : \E m2 \in Messages \ {m1} :
        /\ messages[m1].pc = "failed" /\ messages[m1].replies = 1
        /\ messages[m1].debugMode
        /\ messages[m2].pc = "handled" /\ messages[m2].replies = 1
        /\ messages[m2].matched

====
